---- MODULE Spec2Model ----
(***************************************************************************)
(* Model of Convert.py: the batch orchestrator (__main__) that relocates   *)
(* the .mp4 files of the working directory into a backup directory and     *)
(* fans one convert_video task per file out over a ProcessPoolExecutor,    *)
(* and the frame processor (convert_video).                                *)
(*                                                                         *)
(* A file name is a sequence of characters, a path a sequence of names     *)
(* below the working directory.  The file system is the pair               *)
(* (dirs, files): the set of directory paths and a function from the       *)
(* paths of regular files to their content.                                *)
(***************************************************************************)
EXTENDS Integers, Sequences, FiniteSets, TLC

VARIABLES
    pc,          \* position of __main__
    file_list,   \* the variable file_list of __main__
    dirs,        \* directories below the working directory
    files,       \* regular files below the working directory
    futures,     \* file names a task was submitted for
    task,        \* per name of the directory listing: the state of its convert_video call
    subtractors, \* background-subtractor instances, by instance
    rc,          \* return codes of the two shell commands (discarded by the code)
    moved,       \* names the shell's mv renamed into the backup directory
    workers,     \* args.max_workers
    variant,     \* args.subtractor
    immutable,   \* names whose rename(2) fails with EPERM
    files0,      \* files at run start
    dirs0        \* dirs at run start

vars == <<pc, file_list, dirs, files, futures, task, subtractors, rc, moved,
          workers, variant, immutable, files0, dirs0>>

----------------------------------------------------------------------------
(* Bounds *)

MaxFiles == 2        \* entries of the working directory of a first run
MaxFilesAfterRun == 1 \* entries beside the backup directories of an earlier run
MaxFrames == 2       \* frames of a video
MaxWorkers == 2      \* --max-workers

----------------------------------------------------------------------------
(* Names and contents present in the working directory at run start *)

DestDir == <<"unsubtracted_videos">>
DestOld == DestDir \o <<"_old">>

A_MP4 == <<"a", ".", "m", "p", "4">>
B_MP4 == <<"b", ".", "m", "p", "4">>
BAD_MP4 == <<"b", "a", "d", ".", "m", "p", "4">>
NAN_MP4 == <<"n", "a", "n", ".", "m", "p", "4">>
ERR_MP4 == <<"e", "r", "r", ".", "m", "p", "4">>
HIDDEN_MP4 == <<".", "h", ".", "m", "p", "4">>
CMP4 == <<"c", "m", "p", "4">>
NOTES_TXT == <<"n", "o", "t", "e", "s", ".", "t", "x", "t">>
OLD_MP4 == <<"o", "l", "d", ".", "m", "p", "4">>
OLDER_MP4 == <<"o", "l", "d", "e", "r", ".", "m", "p", "4">>
OLDEST_MP4 == <<"o", "l", "d", "e", "s", "t", ".", "m", "p", "4">>

Universe == {A_MP4, B_MP4, BAD_MP4, NAN_MP4, ERR_MP4, HIDDEN_MP4, CMP4, NOTES_TXT}

Prefix(s, n) == SubSeq(s, 1, IF n < Len(s) THEN n ELSE Len(s))

\* A frame is a sequence of pixels; the empty frame is an empty image.
EmptyFrame == <<>>
FootageA == <<<<1, 0>>, <<1, 1>>, <<0, 1>>, <<0, 1>>, <<1, 0>>>>
FootageB == <<<<1, 1>>, <<0, 1>>, <<0, 1>>, <<1, 1>>, <<0, 0>>>>
FootageErr == <<<<0, 1>>, EmptyFrame, <<1, 1>>, <<1, 0>>, <<1, 1>>>>

\* Content of a regular file: health says what the decoder makes of it
\* ("ok", "corrupt": does not open, "nanfps": opens and reports a NaN frame rate),
\* frames is its frame sequence, tag tells an original from an encoder output.
Video(health, frames) == [tag |-> "orig", health |-> health, frames |-> frames]

StartContent(name) ==
    CASE name = A_MP4 -> Video("ok", Prefix(FootageA, MaxFrames))
      [] name = B_MP4 -> Video("ok", Prefix(FootageB, MaxFrames))
      [] name = HIDDEN_MP4 -> Video("ok", Prefix(FootageB, 1))
      [] name = ERR_MP4 -> Video("ok", Prefix(FootageErr, MaxFrames))
      [] name = NAN_MP4 -> Video("nanfps", Prefix(FootageA, 1))
      [] name = OLD_MP4 -> Video("ok", Prefix(FootageA, 1))
      [] name = OLDER_MP4 -> Video("ok", Prefix(FootageB, 1))
      [] name = OLDEST_MP4 -> Video("ok", Prefix(FootageA, 1))
      [] OTHER -> Video("corrupt", <<>>)

----------------------------------------------------------------------------
(* Name matching *)

Last(s, k) == SubSeq(s, Len(s) - k + 1, Len(s))

\* The shell's expansion of *.mp4: the name ends in ".mp4" and does not
\* begin with a dot.
GlobMp4(name) ==
    /\ Len(name) >= 4
    /\ Last(name, 4) = <<".", "m", "p", "4">>
    /\ name[1] # "."

\* re.search(r".mp4$", name): any character but a newline, then "mp4", at the
\* end of the name or before its trailing newline.
RegexAt(name, end) ==
    /\ end >= 4
    /\ SubSeq(name, end - 2, end) = <<"m", "p", "4">>
    /\ name[end - 3] # "\n"

RegexMp4(name) ==
    \/ RegexAt(name, Len(name))
    \/ Len(name) >= 1 /\ name[Len(name)] = "\n" /\ RegexAt(name, Len(name) - 1)

----------------------------------------------------------------------------
(* File system *)

HasPrefix(p, d) == Len(p) >= Len(d) /\ SubSeq(p, 1, Len(d)) = d

Exists(p) == p \in dirs \/ p \in DOMAIN files

\* os.listdir(d)
ListDir(d) ==
    {p[Len(d) + 1] : p \in {q \in dirs \cup DOMAIN files : Len(q) = Len(d) + 1 /\ HasPrefix(q, d)}}

IsEmptyDir(d) == d \in dirs /\ ListDir(d) = {}

Rebase(p, src, dst) ==
    IF HasPrefix(p, src) THEN dst \o SubSeq(p, Len(src) + 1, Len(p)) ELSE p

\* rename(2) of src to dst succeeds when dst is absent, or src is a directory
\* and dst an empty directory, or both are regular files.
RenameOk(src, dst) ==
    /\ Exists(src)
    /\ src[Len(src)] \notin immutable
    /\ \/ ~Exists(dst)
       \/ src \in dirs /\ IsEmptyDir(dst)
       \/ src \in DOMAIN files /\ dst \in DOMAIN files

RenamedDirs(src, dst) == {Rebase(d, src, dst) : d \in dirs \ {dst}}

RenamedFiles(src, dst) ==
    [p \in {Rebase(q, src, dst) : q \in DOMAIN files \ {dst}} |->
        files[CHOOSE q \in DOMAIN files \ {dst} : Rebase(q, src, dst) = p]]

\* mv SOURCE DEST: into DEST when DEST is a directory, onto DEST otherwise.
MvTarget(src, dst) == IF dst \in dirs THEN Append(dst, src[Len(src)]) ELSE dst

DestPath == <<DestDir>>
DestOldPath == <<DestOld>>

----------------------------------------------------------------------------
(* __main__ *)

\* file_list = os.listdir()
ListWorkingDir ==
    /\ pc = "listdir"
    /\ file_list' = ListDir(<<>>)
    /\ pc' = "rename"
    /\ UNCHANGED <<dirs, files, futures, task, subtractors, rc, moved,
                   workers, variant, immutable, files0, dirs0>>

\* if args.dest_dir in file_list: subprocess.run("mv dest dest_old", shell=True)
\* The return code of mv is not looked at.
MoveOldAside ==
    /\ pc = "rename"
    /\ pc' = "mkdir"
    /\ IF DestDir \in file_list
       THEN LET dst == MvTarget(DestPath, DestOldPath) IN
            IF RenameOk(DestPath, dst)
            THEN /\ dirs' = RenamedDirs(DestPath, dst)
                 /\ files' = RenamedFiles(DestPath, dst)
                 /\ rc' = [rc EXCEPT !.rename = 0]
            ELSE /\ rc' = [rc EXCEPT !.rename = 1]
                 /\ UNCHANGED <<dirs, files>>
       ELSE UNCHANGED <<dirs, files, rc>>
    /\ UNCHANGED <<file_list, futures, task, subtractors, moved,
                   workers, variant, immutable, files0, dirs0>>

\* os.mkdir(args.dest_dir) raises FileExistsError when the path exists; the
\* exception is not caught and ends the run.
MakeDestDir ==
    /\ pc = "mkdir"
    /\ IF Exists(DestPath)
       THEN /\ pc' = "crashed"
            /\ UNCHANGED dirs
       ELSE /\ pc' = "mv"
            /\ dirs' = dirs \cup {DestPath}
    /\ UNCHANGED <<file_list, files, futures, task, subtractors, rc, moved,
                   workers, variant, immutable, files0, dirs0>>

\* The names the shell passes to mv for *.mp4 (the pattern itself when
\* nothing matches, which mv then fails to stat).
GlobMatches == {n \in ListDir(<<>>) : GlobMp4(n)}

Movable == {n \in GlobMatches : RenameOk(<<n>>, <<DestDir, n>>)}

MovedPath(p, names) == IF Len(p) >= 1 /\ p[1] \in names THEN DestPath \o p ELSE p

\* subprocess.run("mv *.mp4 dest", shell=True); mv goes on after a source it
\* cannot move and reports the failure in its return code, which is not
\* looked at.
MoveVideos ==
    /\ pc = "mv"
    /\ pc' = "filter"
    /\ moved' = Movable
    /\ dirs' = {MovedPath(d, Movable) : d \in dirs}
    /\ files' = [p \in {MovedPath(q, Movable) : q \in DOMAIN files} |->
                    files[CHOOSE q \in DOMAIN files : MovedPath(q, Movable) = p]]
    /\ rc' = [rc EXCEPT !.mv = IF GlobMatches = {} \/ Movable # GlobMatches THEN 1 ELSE 0]
    /\ UNCHANGED <<file_list, futures, task, subtractors,
                   workers, variant, immutable, files0, dirs0>>

\* file_list = list(set([file for file in file_list if re.search(r".mp4$", file)]))
FilterFileList ==
    /\ pc = "filter"
    /\ pc' = "submit"
    /\ file_list' = {n \in file_list : RegexMp4(n)}
    /\ UNCHANGED <<dirs, files, futures, task, subtractors, rc, moved,
                   workers, variant, immutable, files0, dirs0>>

----------------------------------------------------------------------------
(* Background subtractors: cv2.createBackgroundSubtractorMOG2 / KNN.  An    *)
(* instance keeps a background model that every apply() updates, so the     *)
(* mask of a frame depends on the frames the instance saw before it.        *)

Pixels(frame) == 1..Len(frame)

NewSubtractor(kind) == [kind |-> kind, seen |-> FALSE, bg |-> <<>>]

NoSubtractor == NewSubtractor("none")

\* The first frame is all foreground.  After it MOG2 marks the pixels that
\* differ from the previous frame, KNN the lit pixels never lit before.
MaskOf(st, frame) ==
    [i \in Pixels(frame) |->
        IF ~st.seen \/ Len(st.bg) # Len(frame) THEN 255
        ELSE IF st.kind = "MOG2"
             THEN (IF frame[i] # st.bg[i] THEN 255 ELSE 0)
             ELSE (IF frame[i] = 1 /\ st.bg[i] = 0 THEN 255 ELSE 0)]

Learn(st, frame) ==
    [st EXCEPT !.seen = TRUE,
               !.bg = IF ~st.seen \/ Len(st.bg) # Len(frame) \/ st.kind = "MOG2"
                      THEN frame
                      ELSE [i \in Pixels(frame) |-> IF frame[i] = 1 THEN 1 ELSE st.bg[i]]]

\* cv2.bitwise_and(frame, frame, mask=fgMask)
BitwiseAnd(frame, mask) == [i \in Pixels(frame) |-> IF mask[i] # 0 THEN frame[i] ELSE 0]

\* The module-level instance a shared subtractor would be.
SharedInstance(file) == <<"module">>

\* The subtractor of a task is a local of its convert_video call.
SubtractorInstance(file) == file

----------------------------------------------------------------------------
(* convert_video(subtract_type, file, old_video_repository) *)

IdleTask == [pc |-> "idle", cap |-> "unbound", writer |-> "unbound",
             count |-> 0, err |-> FALSE, raised |-> FALSE]

\* os.path.join(old_video_repository, file)
SourcePath(file) == <<DestDir, file>>

\* cv2.VideoCapture(path) raises nothing: it is opened or it is not.
Opens(path) == path \in DOMAIN files /\ files[path].health # "corrupt"

Running == {f \in DOMAIN task : task[f].pc \in {"setup", "loop", "cleanup"}}

\* A worker process of the pool takes a queued call.
StartTask(f) ==
    /\ task[f].pc = "queued"
    /\ Cardinality(Running) < workers
    /\ task' = [task EXCEPT ![f].pc = "setup"]
    /\ UNCHANGED <<pc, file_list, dirs, files, futures, subtractors, rc, moved,
                   workers, variant, immutable, files0, dirs0>>

\* From cv2.VideoCapture to the open cv2.VideoWriter.  cap.get() of a capture
\* that is not opened is 0, and a writer of size (0, 0) or rate 0 does not
\* open and creates no file; int() of a NaN frame rate raises ValueError
\* before writer is bound.
SetupTask(f) ==
    /\ task[f].pc = "setup"
    /\ LET opened == Opens(SourcePath(f))
           nan == opened /\ files[SourcePath(f)].health = "nanfps"
       IN /\ subtractors' = [subtractors EXCEPT
                                ![SubtractorInstance(f)] = NewSubtractor(variant)]
          /\ IF nan
             THEN /\ task' = [task EXCEPT ![f].pc = "cleanup",
                                           ![f].cap = "open",
                                           ![f].err = TRUE]
                  /\ UNCHANGED files
             ELSE /\ task' = [task EXCEPT
                                ![f].pc = "loop",
                                ![f].cap = IF opened THEN "open" ELSE "unopened",
                                ![f].writer = IF opened THEN "open" ELSE "unopened"]
                  /\ files' = IF opened
                              THEN [p \in DOMAIN files \cup {<<f>>} |->
                                      IF p = <<f>>
                                      THEN [tag |-> "out", health |-> "ok", frames |-> <<>>]
                                      ELSE files[p]]
                              ELSE files
    /\ UNCHANGED <<pc, file_list, dirs, futures, rc, moved,
                   workers, variant, immutable, files0, dirs0>>

\* One turn of the while loop: cap.read(), subtractor.apply, bitwise_and,
\* writer.write.  apply() of an empty image raises cv2.error.
ReadFrame(f) ==
    /\ task[f].pc = "loop"
    /\ LET src == SourcePath(f)
           ret == task[f].cap = "open" /\ task[f].count < Len(files[src].frames)
           frame == files[src].frames[task[f].count + 1]
           inst == SubtractorInstance(f)
           fgMask == MaskOf(subtractors[inst], frame)
           masked == BitwiseAnd(frame, fgMask)
       IN IF ~ret
          THEN /\ task' = [task EXCEPT ![f].pc = "cleanup"]
               /\ UNCHANGED <<files, subtractors>>
          ELSE IF frame = EmptyFrame
          THEN /\ task' = [task EXCEPT ![f].pc = "cleanup", ![f].err = TRUE]
               /\ UNCHANGED <<files, subtractors>>
          ELSE /\ subtractors' = [subtractors EXCEPT ![inst] = Learn(@, frame)]
               /\ task' = [task EXCEPT ![f].count = @ + 1]
               /\ files' = IF task[f].writer = "open"
                           THEN [files EXCEPT ![<<f>>].frames = Append(@, masked)]
                           ELSE files
    /\ UNCHANGED <<pc, file_list, dirs, futures, rc, moved,
                   workers, variant, immutable, files0, dirs0>>

\* finally: cap.release(); writer.release().  A name that was never bound
\* raises UnboundLocalError, which leaves the call as its exception; release()
\* of a handle that never opened does nothing.
Cleanup(f) ==
    /\ task[f].pc = "cleanup"
    /\ task' = [task EXCEPT
                  ![f].pc = "finished",
                  ![f].cap = IF @ = "open" THEN "released" ELSE @,
                  ![f].writer = IF task[f].cap # "unbound" /\ @ = "open"
                                THEN "released" ELSE @,
                  ![f].raised = task[f].cap = "unbound" \/ task[f].writer = "unbound"]
    /\ UNCHANGED <<pc, file_list, dirs, files, futures, subtractors, rc, moved,
                   workers, variant, immutable, files0, dirs0>>

TaskStep(f) == StartTask(f) \/ SetupTask(f) \/ ReadFrame(f) \/ Cleanup(f)

----------------------------------------------------------------------------
(* The pool: executor.submit for each file of file_list, then wait *)

\* executor.submit(convert_video, args.subtractor, file, args.dest_dir)
Submit ==
    /\ pc = "submit"
    /\ \E f \in file_list \ futures :
          /\ futures' = futures \cup {f}
          /\ task' = [task EXCEPT ![f].pc = "queued"]
    /\ UNCHANGED <<pc, file_list, dirs, files, subtractors, rc, moved,
                   workers, variant, immutable, files0, dirs0>>

EndSubmit ==
    /\ pc = "submit"
    /\ file_list \ futures = {}
    /\ pc' = "wait"
    /\ UNCHANGED <<file_list, dirs, files, futures, task, subtractors, rc, moved,
                   workers, variant, immutable, files0, dirs0>>

\* A future is done once its call returned or raised.
AnyFutureDone == \E f \in futures : task[f].pc = "finished"

\* concurrent.futures.wait(futures), and the executor's shutdown at the end of
\* the with block, return when every future is done.
AllFuturesDone == \A f \in futures : task[f].pc = "finished"

\* logging.info("Finished the conversion of the videos")
WaitAndFinish ==
    /\ pc = "wait"
    /\ AllFuturesDone
    /\ pc' = "done"
    /\ UNCHANGED <<file_list, dirs, files, futures, task, subtractors, rc, moved,
                   workers, variant, immutable, files0, dirs0>>

Main ==
    \/ ListWorkingDir
    \/ MoveOldAside
    \/ MakeDestDir
    \/ MoveVideos
    \/ FilterFileList
    \/ Submit
    \/ EndSubmit
    \/ WaitAndFinish

----------------------------------------------------------------------------
(* Runs *)

\* What a previous run may have left: nothing, a backup directory, a backup
\* directory and an older one set aside, and the latter with a backup
\* directory already inside it.
PriorDirs ==
    { {},
      {DestPath},
      {DestPath, DestOldPath},
      {DestPath, DestOldPath, <<DestOld, DestDir>>} }

PriorFiles(ds) ==
    (IF DestPath \in ds THEN {<<DestDir, OLD_MP4>>} ELSE {})
    \cup (IF DestOldPath \in ds THEN {<<DestOld, OLDER_MP4>>} ELSE {})
    \cup (IF <<DestOld, DestDir>> \in ds THEN {<<DestOld, DestDir, OLDEST_MP4>>} ELSE {})

Listings(ds) ==
    {S \in SUBSET Universe :
        Cardinality(S) <= IF ds = {} THEN MaxFiles ELSE MaxFilesAfterRun}

Init ==
    /\ pc = "listdir"
    /\ file_list = {}
    /\ futures = {}
    /\ moved = {}
    /\ rc = [rename |-> 0, mv |-> 0]
    /\ workers \in 1..MaxWorkers
    /\ variant \in {"MOG2", "KNN"}
    /\ \E ds \in PriorDirs : \E listing \in Listings(ds) :
          /\ dirs = ds
          /\ files = [p \in {<<n>> : n \in listing} \cup PriorFiles(ds) |->
                        StartContent(p[Len(p)])]
          /\ immutable \in SUBSET (listing \cap {A_MP4})
          /\ task = [f \in listing |-> IdleTask]
          /\ subtractors = [i \in listing \cup {SharedInstance(<<>>)} |-> NoSubtractor]
    /\ files0 = files
    /\ dirs0 = dirs

Next ==
    \/ ListWorkingDir
    \/ MoveOldAside
    \/ MakeDestDir
    \/ MoveVideos
    \/ FilterFileList
    \/ Submit
    \/ EndSubmit
    \/ WaitAndFinish
    \/ \E f \in DOMAIN task : StartTask(f)
    \/ \E f \in DOMAIN task : SetupTask(f)
    \/ \E f \in DOMAIN task : ReadFrame(f)
    \/ \E f \in DOMAIN task : Cleanup(f)

Spec == Init /\ [][Next]_vars

\* The main process runs, and the pool runs every call a worker has taken or
\* can take.
FairSpec == Spec /\ WF_vars(Main) /\ \A f \in Universe : WF_vars(f \in DOMAIN task /\ TaskStep(f))

----------------------------------------------------------------------------
(* Vocabulary of the properties *)

EndsInMp4(name) == Len(name) >= 4 /\ Last(name, 4) = <<".", "m", "p", "4">>

\* The .mp4 files of the working directory at run start
StartMp4 == {n \in DOMAIN task : EndsInMp4(n)}

\* The original of n is in the backup directory, with its content
InBackup(n) ==
    /\ <<n>> \in DOMAIN files0
    /\ SourcePath(n) \in DOMAIN files
    /\ files[SourcePath(n)] = files0[<<n>>]

Finished(f) == task[f].pc = "finished"

\* The task ended with an error: its source did not open, it logged an
\* error, or an exception left it.
FailedTask(f) ==
    Finished(f) /\ (task[f].cap = "unopened" \/ task[f].err \/ task[f].raised)

SomeTaskStarted == \E f \in DOMAIN task : task[f].pc \notin {"idle", "queued"}

RECURSIVE StateAfter(_, _, _)
\* The subtractor of kind `kind` after the first n frames of src, and nothing else
StateAfter(kind, src, n) ==
    IF n = 0 THEN NewSubtractor(kind)
    ELSE Learn(StateAfter(kind, src, n - 1), src[n])

\* The first n frames of src, each ANDed with the mask the subtractor gave
\* it after the frames before it
MaskedFrames(kind, src, n) ==
    [i \in 1..n |-> BitwiseAnd(src[i], MaskOf(StateAfter(kind, src, i - 1), src[i]))]

\* The frames of src the loop gets through: up to the first empty one
RECURSIVE Decodable(_, _)
Decodable(src, n) ==
    IF n < Len(src) /\ src[n + 1] # EmptyFrame THEN Decodable(src, n + 1) ELSE n

\* What a run leaves at the name f in the working directory, as a function of
\* the file, the files moved and the variant alone
ExpectedOutput(f) ==
    IF f \in moved /\ files0[<<f>>].health = "ok"
    THEN [tag |-> "out", health |-> "ok",
          frames |-> MaskedFrames(variant, files0[<<f>>].frames,
                                  Decodable(files0[<<f>>].frames, 0))]
    ELSE IF f \in moved THEN [tag |-> "none", health |-> "none", frames |-> <<>>]
    ELSE files0[<<f>>]

Output(f) ==
    IF <<f>> \in DOMAIN files THEN files[<<f>>]
    ELSE [tag |-> "none", health |-> "none", frames |-> <<>>]

----------------------------------------------------------------------------
(* Properties *)

\* C1: every .mp4 file of the working directory at run start is in the backup
\* directory before the first task starts, is never overwritten while it is
\* still in the working directory, and is in the backup directory with its
\* original content when the run ends.
C1_OriginalsBackedUp ==
    \A n \in StartMp4 :
        /\ SomeTaskStarted => InBackup(n)
        /\ pc = "done" => InBackup(n)
        /\ (<<n>> \in DOMAIN files /\ ~InBackup(n)) => files[<<n>>] = files0[<<n>>]

\* C2: when the run logs completion every submitted task has run to its own
\* outcome, whatever its siblings did, and the original of every failed task
\* is in the backup directory.
C2_FailureIsolated ==
    pc = "done" =>
        \A f \in futures :
            /\ Finished(f)
            /\ FailedTask(f) => InBackup(f)

\* The part of C2 about the siblings alone: a step of one task changes no
\* other task, and at completion every submitted task has finished.
SiblingsUntouched ==
    [][\A f \in DOMAIN task :
          (task'[f] # task[f]) =>
              \A g \in DOMAIN task \ {f} : task'[g] = task[g] /\ Output(g)' = Output(g)]_vars

AllRunToAnOutcome == pc = "done" => \A f \in futures : Finished(f)

\* C3: a backup directory present at run start is renamed to <name>_old, which
\* then directly contains its files and still holds what it held before, and
\* the fresh backup directory holds only this run's originals.
C3_PriorBackupSetAside ==
    (DestPath \in dirs0 /\ pc \notin {"listdir", "rename"}) =>
        /\ DestOldPath \in dirs
        /\ \A p \in DOMAIN files0 :
              /\ HasPrefix(p, DestPath) =>
                    /\ Rebase(p, DestPath, DestOldPath) \in DOMAIN files
                    /\ files[Rebase(p, DestPath, DestOldPath)] = files0[p]
              /\ HasPrefix(p, DestOldPath) => (p \in DOMAIN files /\ files[p] = files0[p])
        /\ \A p \in DOMAIN files :
              HasPrefix(p, DestPath) =>
                  (Len(p) = 2 /\ <<p[2]>> \in DOMAIN files0 /\ files[p] = files0[<<p[2]>>])

\* C4: completion is logged only when every submitted task has finished, and
\* once the tasks are being submitted completion is eventually logged.
C4_CompletionAfterAllTasks ==
    /\ [](pc = "done" => \A f \in futures : Finished(f))
    /\ (pc = "submit") ~> (pc = "done")

C4_Witness ==
    /\ pc = "done"
    /\ \E f, g \in futures :
          /\ task[f].err
          /\ ~task[g].err /\ ~task[g].raised /\ task[g].count >= 1

\* C5: in every state, whatever the worker count and the interleaving, what a
\* task has written is the masked prefix of its own file's frames, and what a
\* finished task leaves depends on its file and the variant alone.
C5_OutputIndependentOfScheduling ==
    \A f \in futures :
        /\ task[f].writer \in {"open", "released"} =>
              Output(f) = [tag |-> "out", health |-> "ok",
                           frames |-> MaskedFrames(variant, files0[<<f>>].frames,
                                                   task[f].count)]
        /\ Finished(f) => Output(f) = ExpectedOutput(f)

C5_Witness ==
    /\ workers >= 2
    /\ \E f, g \in futures :
          /\ f # g
          /\ task[f].pc = "loop" /\ task[f].count >= 1 /\ task[f].writer = "open"
          /\ task[g].pc = "loop" /\ task[g].count >= 1 /\ task[g].writer = "open"

\* C6: once a step of the relocation phase has failed, no task is submitted
\* and no file of the working directory is written.
C6_RelocationFailureHalts ==
    (rc.rename # 0 \/ rc.mv # 0 \/ pc = "crashed") =>
        /\ futures = {}
        /\ \A n \in DOMAIN task : <<n>> \in DOMAIN files => files[<<n>>].tag = "orig"

\* C7: a task that ends without a logged error leaves an output of the file's
\* name whose frames are the source's frames, as many and in order, each ANDed
\* with the mask the subtractor returned for it.
C7_OutputFramesMasked ==
    \A f \in futures :
        (Finished(f) /\ ~task[f].err /\ ~task[f].raised) =>
            /\ Output(f).tag = "out"
            /\ Len(Output(f).frames) = Len(files0[<<f>>].frames)
            /\ Output(f).frames =
                  MaskedFrames(variant, files0[<<f>>].frames, Len(files0[<<f>>].frames))

\* The part of C7 about the tasks whose source opened.
OpenedOutputFramesMasked ==
    \A f \in futures :
        (Finished(f) /\ ~task[f].err /\ ~task[f].raised /\ task[f].cap = "released") =>
            /\ Output(f).tag = "out"
            /\ Output(f).frames =
                  MaskedFrames(variant, files0[<<f>>].frames, Len(files0[<<f>>].frames))

\* C8: the names submitted are exactly the names the move relocated.
C8_TasksAreRelocatedFiles == pc \in {"wait", "done"} => futures = moved

\* C9: a finished task holds no open handle and its cleanup raised nothing.
C9_CleanupReleasesHandles ==
    \A f \in DOMAIN task :
        Finished(f) =>
            /\ task[f].cap # "open"
            /\ task[f].writer # "open"
            /\ ~task[f].raised

\* The part of C9 about the handles alone.
NoHandleLeftOpen ==
    \A f \in DOMAIN task : Finished(f) => (task[f].cap # "open" /\ task[f].writer # "open")

\* C10: a task whose source did not open logs an error and processes no
\* frame.
C10_OpenFailureLogged ==
    \A f \in DOMAIN task :
        (Finished(f) /\ task[f].cap = "unopened") =>
            (task[f].err /\ task[f].count = 0)

====
